---- MODULE Spec2Model ----
(***************************************************************************)
(* SimpleConnectionPool (automation/utils.py): a lazily filled connection  *)
(* pool whose acquire() context manager withdraws wrappers from a FIFO     *)
(* queue, throws away the ones whose 'last_acquired' stamp has timed out,  *)
(* creates a connection when the queue runs empty, and puts the wrapper    *)
(* back when the caller's with-block exits.                                *)
(*                                                                         *)
(* Every caller is a thread.  One step of a caller is one atomic access to *)
(* the shared queue.Queue (get_nowait / put_nowait take the queue's lock)  *)
(* or a piece of thread-local work; threads interleave between the steps.  *)
(* time.time() is read from a clock that never runs backwards.             *)
(***************************************************************************)
EXTENDS Integers, Sequences, FiniteSets, TLC

\* ------------------------------------------------------------------ bounds
NumProcs    == 2      \* callers (threads) using the one pool
MaxTime     == 2      \* the clock ticks 0 .. MaxTime
MaxAcquires == 3      \* acquire() calls started in one behaviour
MaxTimeout  == 1      \* the pool is built with timeout in 1 .. MaxTimeout

Procs     == 1 .. NumProcs
Resources == 1 .. MaxAcquires   \* a connection is named by its creation rank

\* ------------------------------------------------------- values of the code
None  == 0     \* what a function body of `pass` returns
Unset == -1    \* a wrapper dict without the key 'last_acquired'

NoError      == "none"
CreateErrors == {"CreateError"}
BlockErrors  == {"BlockErrorA", "BlockErrorB"}

\* the local variable `wrapper` before its first assignment
Unbound == [conn |-> -1, last_acquired |-> Unset]

\* the record of a with-statement that has ended
Ended(p, c, e, r) == [caller |-> p, conn |-> c, raised |-> e, result |-> r]
NoOutcome == Ended(0, -1, NoError, "none")

VARIABLES
    queue,        \* self.queue: the idle wrappers, oldest first
    timeout,      \* self.timeout
    specialized,  \* whether the pool's class overrides create()
    clock,        \* what time.time() returns
    pc,           \* each caller's position in acquire()
    now,          \* each caller's local `now`
    wrapper,      \* each caller's local `wrapper`
    created,      \* connections create() has returned so far
    \* history variables (read by the properties, never by the actions' guards)
    outcome,      \* the with-statement that ended in the last step, if one did: its
                  \* caller, the connection it had yielded, what was raised inside
                  \* it (by create() or by the block) and how it ended
    acquires,     \* acquire() calls started
    creates,      \* connections created by each caller's current acquire()
    discarded,    \* connections thrown away as timed out
    retTime,      \* retTime[r]: the clock when connection r, idle or thrown away,
                  \* was last put back
    overlap,      \* an acquire() started while another caller was inside one
    timely,       \* no acquire() so far started with a connection idle > timeout
    inWindow,     \* no acquire() so far started timeout or more after the stamp
                  \* of an idle wrapper
    condemned,    \* connections that were idle > timeout when some acquire() started
    staleAtStart, \* per caller: the connections idle > timeout when its acquire() started
    atStart,      \* per caller: the queue as it was when its acquire() started
    alone         \* per caller: no other caller has withdrawn from or put into the
                  \* queue since its acquire() started

vars == <<queue, timeout, specialized, clock, pc, now, wrapper, created, outcome,
          acquires, creates, discarded, retTime, overlap, timely, inWindow,
          condemned, staleAtStart, atStart, alone>>

\* ----------------------------------------------------------------- helpers
\* the connections (not None) held by the wrappers of a queue
Conns(q) == {q[i].conn : i \in 1 .. Len(q)} \ {None}

\* a staleness test that leaves the timeout out
FreshForgetsTimeout(w, t) == w.last_acquired > t

\* a staleness test that never finds a wrapper stale
FreshAlways(w, t) == TRUE

\* a staleness test that still hands out a wrapper whose time is exactly up
FreshAtEquality(w, t) == w.last_acquired + timeout >= t

\* line 108: wrapper['last_acquired'] + self.timeout > now
Fresh(w, t) == w.last_acquired + timeout > t

\* a finally clause that forgets the stamp
StampNothing(w, t) == w

\* a finally clause that stamps the time the block took
StampElapsed(w, t) == [w EXCEPT !.last_acquired = clock - t]

\* a finally clause that reads the clock again: the stamp is the time of return
StampAtExit(w, t) == [w EXCEPT !.last_acquired = clock]

\* line 119: wrapper['last_acquired'] = now
Stamp(w, t) == [w EXCEPT !.last_acquired = t]

\* a finally clause that forgets the put
PutNowaitLost(q, w) == q

\* a queue built with maxsize=1 whose Full is swallowed
PutNowaitCapped(q, w) == IF Len(q) >= 1 THEN q ELSE Append(q, w)

\* a put at the front: the pool as a stack
PutNowaitFront(q, w) == <<w>> \o q

\* line 120: self.queue.put_nowait(wrapper) -- Queue() has no maxsize, never Full
PutNowait(q, w) == Append(q, w)

\* a get that reads the oldest wrapper and leaves it in the queue
GetNowaitPeek(q) == q

\* line 107: what get_nowait() leaves in the queue
GetNowaitRest(q) == Tail(q)

\* line 107: get_nowait() raises Empty instead of waiting for a put
RaisesEmpty(q) == q = <<>>

\* lines 113-115: the wrapper of a new connection carries no 'last_acquired'
NewWrapper(c) == [conn |-> c, last_acquired |-> Unset]

\* lines 122-127: what a call of self.create() can do.  The base class is a plain
\* class (no ABCMeta), so @abstractmethod does not stop instantiation and the body
\* `pass` returns None; an override returns a new connection or raises.
CreateOutcomes == IF specialized THEN {"new"} \cup CreateErrors ELSE {"None"}

\* a generator that catches what the block raised
ScopeOutcomeSwallows(e) == "ok"

\* lines 98, 116-120: the generator re-raises what was thrown into it after the
\* finally clause; contextmanager's __exit__ then lets that exception through
ScopeOutcome(e) == IF e = NoError THEN "ok" ELSE e

\* lines 111-115: an exception of create() leaves acquire() as it is
CreateFailure(e) == e

Inside(p) == pc[p] # "idle"
OnLoan(p) == pc[p] = "block"

\* the connections of the queue that have been idle for more than timeout
IdleTooLong == {r \in Conns(queue) : clock - retTime[r] > timeout}

\* every wrapper of the queue was stamped less than timeout ago
AllInWindow == \A i \in 1 .. Len(queue) : clock - queue[i].last_acquired < timeout

\* -------------------------------------------------------------------- Init
Init ==
    /\ queue = <<>>
    /\ timeout \in 1 .. MaxTimeout
    /\ specialized \in BOOLEAN
    /\ clock = 0
    /\ pc = [p \in Procs |-> "idle"]
    /\ now = [p \in Procs |-> 0]
    /\ wrapper = [p \in Procs |-> Unbound]
    /\ created = 0
    /\ outcome = NoOutcome
    /\ acquires = 0
    /\ creates = [p \in Procs |-> 0]
    /\ discarded = {}
    /\ retTime = [r \in Resources |-> 0]
    /\ overlap = FALSE
    /\ timely = TRUE
    /\ inWindow = TRUE
    /\ condemned = {}
    /\ staleAtStart = [p \in Procs |-> {}]
    /\ atStart = [p \in Procs |-> <<>>]
    /\ alone = [p \in Procs |-> FALSE]

\* ----------------------------------------------------------------- actions
\* time passes
Tick ==
    /\ clock < MaxTime
    /\ clock' = clock + 1
    /\ outcome' = NoOutcome
    /\ UNCHANGED <<queue, timeout, specialized, pc, now, wrapper, created,
                   acquires, creates, discarded, retTime, overlap, timely,
                   inWindow, condemned, staleAtStart, atStart, alone>>

\* line 104: now = time.time()
Start(p) ==
    /\ pc[p] = "idle"
    /\ acquires < MaxAcquires
    /\ pc' = [pc EXCEPT ![p] = "loop"]
    /\ now' = [now EXCEPT ![p] = clock]
    /\ outcome' = NoOutcome
    /\ acquires' = acquires + 1
    /\ overlap' = (overlap \/ \E q \in Procs \ {p} : Inside(q))
    /\ timely' = (timely /\ IdleTooLong = {})
    /\ inWindow' = (inWindow /\ AllInWindow)
    /\ condemned' = condemned \cup IdleTooLong
    /\ staleAtStart' = [staleAtStart EXCEPT ![p] = IdleTooLong]
    /\ atStart' = [atStart EXCEPT ![p] = queue]
    /\ alone' = [alone EXCEPT ![p] = TRUE]
    /\ UNCHANGED <<queue, timeout, specialized, clock, wrapper, created,
                   creates, discarded, retTime>>

\* the caller's acquire() is over: its locals are gone
Leave(p) ==
    /\ pc' = [pc EXCEPT ![p] = "idle"]
    /\ wrapper' = [wrapper EXCEPT ![p] = Unbound]
    /\ now' = [now EXCEPT ![p] = 0]
    /\ creates' = [creates EXCEPT ![p] = 0]
    /\ staleAtStart' = [staleAtStart EXCEPT ![p] = {}]

\* what the callers' histories keep of the queue once caller p has withdrawn from
\* it or put into it: the other callers in the loop are no longer alone, and p
\* itself keeps its record only if it was (`kept`)
Disturbed(p, kept) ==
    /\ alone' = [q \in Procs |-> q = p /\ kept]
    /\ atStart' = [q \in Procs |-> IF q = p /\ kept THEN atStart[p] ELSE <<>>]

\* a create() that is tried again, by another turn of the loop, when it raised
CreateRetries(p) ==
    /\ \E res \in CreateOutcomes :
          /\ IF res \in CreateErrors
             THEN UNCHANGED <<pc, wrapper, created>>
             ELSE /\ pc' = [pc EXCEPT ![p] = "block"]
                  /\ wrapper' = [wrapper EXCEPT ![p] =
                                 [conn |-> IF res = "new" THEN created + 1 ELSE None,
                                  last_acquired |-> Unset]]
                  /\ created' = IF res = "new" THEN created + 1 ELSE created
          /\ creates' = [creates EXCEPT ![p] = @ + 1]
          /\ outcome' = NoOutcome
    /\ UNCHANGED <<queue, discarded, retTime, now, staleAtStart, atStart, alone>>

\* lines 111-115, run by Get when get_nowait() raised Empty: 'creating new
\* connection'.  create() touches neither the queue nor the clock, so it is one
\* step with the get_nowait() that led to it.
Create(p) ==
    /\ \E res \in CreateOutcomes :
          IF res \in CreateErrors
          THEN \* the exception leaves acquire(): no yield, no finally clause
               /\ Leave(p)
               /\ outcome' = Ended(p, -1, res, CreateFailure(res))
               /\ alone' = [alone EXCEPT ![p] = FALSE]
               /\ atStart' = [atStart EXCEPT ![p] = <<>>]
               /\ UNCHANGED created
          ELSE /\ pc' = [pc EXCEPT ![p] = "block"]
               /\ wrapper' = [wrapper EXCEPT ![p] =
                                 NewWrapper(IF res = "new" THEN created + 1 ELSE None)]
               /\ created' = IF res = "new" THEN created + 1 ELSE created
               /\ creates' = [creates EXCEPT ![p] = @ + 1]
               /\ outcome' = NoOutcome
               /\ UNCHANGED <<now, staleAtStart, atStart, alone>>
    /\ UNCHANGED <<queue, discarded, retTime>>

\* lines 106-110: get_nowait() returned a wrapper
Withdraw(p) ==
    /\ queue' = GetNowaitRest(queue)
    /\ retTime' = [r \in Resources |->
                      IF r = Head(queue).conn /\ Fresh(Head(queue), now[p])
                      THEN 0 ELSE retTime[r]]
    /\ IF Head(queue).last_acquired = Unset
       THEN \* wrapper['last_acquired'] raises KeyError, which leaves acquire()
            /\ Leave(p)
            /\ outcome' = Ended(p, -1, "KeyError", "KeyError")
            /\ Disturbed(p, FALSE)
            /\ UNCHANGED discarded
       ELSE /\ wrapper' = [wrapper EXCEPT ![p] = Head(queue)]
            /\ outcome' = NoOutcome
            /\ IF Fresh(Head(queue), now[p])
               THEN /\ pc' = [pc EXCEPT ![p] = "block"]
                    /\ UNCHANGED discarded
               ELSE \* 'throwing away connection', and round the loop again
                    /\ discarded' = discarded \cup ({Head(queue).conn} \ {None})
                    /\ UNCHANGED pc
            /\ Disturbed(p, alone[p])
            /\ UNCHANGED <<now, creates, staleAtStart>>
    /\ UNCHANGED created

\* a get() that waits for a put while the queue is empty
GetWaits(p) ==
    /\ pc[p] = "loop"
    /\ queue # <<>>
    /\ Withdraw(p)
    /\ UNCHANGED <<timeout, specialized, clock, acquires, overlap, timely,
                   inWindow, condemned>>

\* a loop that gives up on the queue at the first timed-out wrapper it sees there
GetGivesUpOnStale(p) ==
    /\ pc[p] = "loop"
    /\ IF RaisesEmpty(queue) \/ ~Fresh(Head(queue), now[p])
       THEN Create(p) ELSE Withdraw(p)
    /\ UNCHANGED <<timeout, specialized, clock, acquires, overlap, timely,
                   inWindow, condemned>>

\* lines 105-115: one attempt to get a wrapper, and what follows from it
Get(p) ==
    /\ pc[p] = "loop"
    /\ IF RaisesEmpty(queue) THEN Create(p) ELSE Withdraw(p)
    /\ UNCHANGED <<timeout, specialized, clock, acquires, overlap, timely,
                   inWindow, condemned>>

\* lines 116-120: the with-block ends, normally (NoError) or by raising e; the
\* finally clause stamps the wrapper and puts it back; then the with-statement
\* ends the way the block did
Exit(p) ==
    /\ pc[p] = "block"
    /\ queue' = PutNowait(queue, Stamp(wrapper[p], now[p]))
    /\ \E e \in {NoError} \cup BlockErrors :
          outcome' = Ended(p, wrapper[p].conn, e, ScopeOutcome(e))
    /\ Leave(p)
    /\ Disturbed(p, FALSE)
    /\ retTime' = IF wrapper[p].conn \in Resources
                  THEN [retTime EXCEPT ![wrapper[p].conn] = clock]
                  ELSE retTime
    /\ UNCHANGED <<timeout, specialized, clock, created, acquires, discarded,
                   overlap, timely, inWindow, condemned>>

Next ==
    \/ Tick
    \/ \E p \in Procs : Start(p)
    \/ \E p \in Procs : Get(p)
    \/ \E p \in Procs : Exit(p)

Spec == Init /\ [][Next]_vars

\* Scheduling: a thread that is inside acquire()'s loop is run again.  Nothing
\* makes a caller start an acquire() or leave its with-block.
FairSpec == Spec /\ \A p \in Procs : WF_vars(Get(p))

TypeOK ==
    /\ pc \in [Procs -> {"idle", "loop", "block"}]
    /\ clock \in 0 .. MaxTime
    /\ created \in 0 .. MaxAcquires
    /\ \A i \in 1 .. Len(queue) : queue[i].last_acquired \in 0 .. MaxTime

\* ------------------------------------------------------------- quantities
IdleCount == Cardinality({i \in 1 .. Len(queue) : queue[i].conn \in Resources})
LoanCount == Cardinality({p \in Procs : OnLoan(p) /\ wrapper[p].conn \in Resources})
Back(q)   == q[Len(q)]

\* -------------------------------------------------------------- properties
\* C1: under every interleaving, no connection is on loan to two callers' with-
\* blocks at once.
NoDoubleLoan ==
    \A p, q \in Procs :
        (p # q /\ OnLoan(p) /\ OnLoan(q) /\ wrapper[p].conn \in Resources)
            => wrapper[p].conn # wrapper[q].conn

\* two callers on loan at once, one of them with a connection taken from the queue
WitnessTwoLoans ==
    \E p, q \in Procs :
        /\ p # q /\ OnLoan(p) /\ OnLoan(q)
        /\ wrapper[p].conn \in Resources /\ wrapper[q].conn \in Resources
        /\ wrapper[p].last_acquired # Unset
\* the Get step of caller p in a behaviour without overlapping acquire() calls,
\* when the queue holds a wrapper: the queue is as it was when p's acquire()
\* started, and now[p] is the time at which it started
SequentialWithdraw(p) ==
    /\ ~overlap /\ pc[p] = "loop" /\ queue # <<>> /\ queue' # queue
    /\ Head(queue).conn \in Resources

\* the wrapper at the head of the queue is handed to p, and nothing is created
Reuses(p) ==
    /\ pc'[p] = "block"
    /\ wrapper'[p].conn = Head(queue).conn
    /\ created' = created
    /\ creates'[p] = 0

\* a with-statement that had yielded a connection ended in the last step
ScopeEnded == outcome.result \in {"ok"} \cup BlockErrors /\ outcome.conn \in Resources

\* C2 as stated: a connection that was yielded is in the queue once its block has
\* exited, however the block ended; and in sequential use the next acquire() that
\* starts less than timeout after that exit reuses it without calling create().
ReturnedThenReusedWithinTimeout ==
    /\ [](ScopeEnded => (queue # <<>> /\ Back(queue).conn = outcome.conn))
    /\ [][\A p \in Procs :
            (SequentialWithdraw(p) /\ now[p] - retTime[Head(queue).conn] < timeout)
                => Reuses(p)]_vars

\* C2 as amended: the same, with the window counted from the time the borrowing
\* acquire() started (the stamp), not from the block's exit.
ReturnedThenReusedWithinWindow ==
    /\ [](ScopeEnded => (queue # <<>> /\ Back(queue).conn = outcome.conn))
    /\ [][\A p \in Procs :
            (SequentialWithdraw(p) /\ now[p] - Head(queue).last_acquired < timeout)
                => Reuses(p)]_vars

\* a block has just failed in sequential use and its connection, borrowed from the
\* queue for that block, is the one wrapper of the queue again
WitnessReturnedAfterFailure ==
    /\ ~overlap
    /\ outcome.raised \in BlockErrors
    /\ outcome.conn \in Resources
    /\ Len(queue) = 1 /\ queue[1].conn = outcome.conn
    /\ created = 1 /\ acquires >= 2

\* C3 as stated: in sequential use, as long as no connection has been idle for more
\* than timeout when an acquire() starts, create() returns one connection only.
SequentialTimelyCreatesOnce ==
    (~overlap /\ timely /\ specialized) => created <= 1

\* C3 as amended: in sequential use, as long as every acquire() starts less than
\* timeout after the start of the acquire() that last borrowed the idle
\* connection, one connection is created and every later acquire() reuses it;
\* the connection is created with the queue empty.
SequentialInWindowCreatesOnce ==
    (~overlap /\ inWindow /\ specialized) =>
        /\ created <= 1
        /\ \A p \in Procs :
              OnLoan(p) => /\ wrapper[p].conn = 1
                           /\ creates[p] = 1 => queue = <<>>

\* the last of MaxAcquires sequential acquire() calls is on loan with the one
\* connection, taken from the queue
WitnessSequentialReuse ==
    \E p \in Procs :
        /\ ~overlap /\ inWindow /\ specialized
        /\ acquires = MaxAcquires
        /\ OnLoan(p) /\ wrapper[p].last_acquired # Unset
        /\ created = 1

\* C4 as stated: a connection that had been idle for more than timeout when an
\* acquire() started is never on loan again, and that acquire() creates exactly
\* one connection.
StaleNeverHandedOut ==
    \A p \in Procs :
        OnLoan(p) => /\ wrapper[p].conn \notin condemned
                     /\ staleAtStart[p] # {} => creates[p] = 1

\* C4 as amended: in sequential use (no two acquire() calls overlap), the same.
\* The acquire() that found it idle too long discards it and creates one
\* connection in its place.
SequentialStaleReplaced ==
    ~overlap =>
        \A p \in Procs :
            OnLoan(p) => /\ wrapper[p].conn \notin condemned
                         /\ staleAtStart[p] # {} =>
                               /\ creates[p] = 1
                               /\ wrapper[p].last_acquired = Unset
                               /\ staleAtStart[p] \subseteq discarded

\* a sequential acquire() that started with a connection idle for more than
\* timeout is on loan with the connection it created
WitnessStaleReplaced ==
    \E p \in Procs :
        /\ ~overlap /\ OnLoan(p) /\ staleAtStart[p] # {}
        /\ creates[p] = 1 /\ created = 2

\* C5 as stated: on a pool whose class does not override create(), create()
\* returns nothing: no caller's block is entered and the queue stays empty.
UnimplementedCreateFails ==
    ~specialized => /\ \A p \in Procs : pc[p] # "block"
                    /\ queue = <<>>
\* the Get step of caller p in which create() raised: the queue was empty and
\* the step is p's, yet no connection was created
CreateRaised(p) ==
    /\ pc[p] = "loop" /\ queue = <<>> /\ specialized
    /\ created' = created
    /\ (pc'[p] # pc[p] \/ creates'[p] # creates[p])

\* C6: when create() raises inside acquire(), the with-statement ends with that
\* exception: create() is not called again by that acquire(), the block is not
\* entered and the queue is left as it was.
CreateFailurePropagates ==
    /\ [](\A p \in Procs : creates[p] <= 1)
    /\ [][\A p \in Procs :
            CreateRaised(p) =>
                /\ outcome'.caller = p
                /\ outcome'.raised \in CreateErrors
                /\ outcome'.result = outcome'.raised
                /\ pc'[p] = "idle"
                /\ queue' = queue
                /\ creates[p] = 0]_vars

\* an acquire() has just ended with create()'s exception, after it had thrown
\* away a timed-out connection
WitnessCreateFailed ==
    /\ outcome.raised \in CreateErrors
    /\ outcome.result = outcome.raised
    /\ discarded # {}
    /\ queue = <<>>

\* C7: when the with-block raises, the with-statement ends with that exception,
\* and in the step in which it does the borrowed wrapper, stamped, is at the back
\* of the queue.
BlockFailurePropagates ==
    [][\A p \in Procs :
          (pc[p] = "block" /\ pc'[p] # "block" /\ outcome'.raised \in BlockErrors) =>
              /\ outcome'.caller = p
              /\ outcome'.result = outcome'.raised
              /\ Len(queue') = Len(queue) + 1
              /\ Back(queue').conn = wrapper[p].conn
              /\ Back(queue').last_acquired # Unset]_vars

\* a with-statement has just ended with the exception of its block, and the
\* connection it had borrowed is at the back of the queue
WitnessBlockFailed ==
    /\ outcome.raised \in BlockErrors
    /\ outcome.result = outcome.raised
    /\ outcome.conn \in Resources
    /\ queue # <<>> /\ Back(queue).conn = outcome.conn

\* C8: under fair scheduling of the callers inside acquire(), every acquire()
\* that started leaves its loop (with a wrapper, or with create()'s exception),
\* whether or not any with-block ever exits; and the turn of the loop that finds
\* the queue empty is the one that calls create().
AcquireNeverWaits ==
    /\ \A p \in Procs : (pc[p] = "loop") ~> (pc[p] # "loop")
    /\ [][\A p \in Procs :
            (pc[p] = "loop" /\ queue = <<>> /\ pc'[p] # "loop") =>
                \/ creates'[p] = 1 /\ pc'[p] = "block"
                \/ outcome'.raised \in CreateErrors /\ outcome'.caller = p]_vars

\* two callers are on loan at once, each with a connection of its own making:
\* the second did not wait for the first
WitnessCreatedWhileOnLoan ==
    \E p, q \in Procs :
        /\ p # q /\ OnLoan(p) /\ OnLoan(q)
        /\ creates[p] = 1 /\ creates[q] = 1
        /\ queue = <<>>

\* C9: no connection is in the queue twice, and a connection on loan is not in
\* the queue.
IdleOnceAndNotOnLoan ==
    /\ \A i, j \in 1 .. Len(queue) :
          (i # j /\ queue[i].conn \in Resources) => queue[i].conn # queue[j].conn
    /\ \A p \in Procs : OnLoan(p) => wrapper[p].conn \notin Conns(queue)

\* a connection taken from the queue is on loan while another one is idle
WitnessLoanBesideIdle ==
    \E p \in Procs :
        /\ OnLoan(p) /\ wrapper[p].conn \in Resources
        /\ wrapper[p].last_acquired # Unset
        /\ Conns(queue) # {}

\* C10: every connection created is idle, on loan or was thrown away as timed
\* out; so no release loses one, however many are idle, and no more are on loan
\* than were created.
CreatedAreIdleOnLoanOrDiscarded ==
    /\ created = IdleCount + LoanCount + Cardinality(discarded)
    /\ LoanCount <= created
    /\ IdleCount = Len(queue) \/ ~specialized

\* connections idle, on loan and thrown away, all at once
WitnessIdleLoanDiscarded ==
    /\ IdleCount >= 1
    /\ LoanCount >= 1
    /\ discarded # {}

\* C11: the stamp written when a with-block ends, normally or by raising, is the
\* time that acquire() read when it started: `now` is the clock at the start, it
\* is not assigned again while the caller is inside, and it is what the wrapper
\* put at the back of the queue carries.
StampIsStartTime ==
    /\ [][\A p \in Procs : (pc[p] = "idle" /\ pc'[p] # "idle") => now'[p] = clock]_vars
    /\ [][\A p \in Procs : (pc[p] # "idle" /\ pc'[p] # "idle") => now'[p] = now[p]]_vars
    /\ [][\A p \in Procs :
            (pc[p] = "block" /\ pc'[p] # "block") =>
                /\ Len(queue') = Len(queue) + 1
                /\ Back(queue').conn = wrapper[p].conn
                /\ Back(queue').last_acquired = now[p]]_vars

\* a block that ran while the clock advanced has just failed: the wrapper it put
\* back carries a stamp older than the time of the return
WitnessStampOlderThanReturn ==
    /\ outcome.raised \in BlockErrors
    /\ queue # <<>> /\ Back(queue).conn = outcome.conn
    /\ Back(queue).last_acquired < clock

\* C12: the wrapper that a get_nowait() withdraws is handed to the caller's block
\* if and only if its stamp + timeout > the caller's `now`; otherwise (stamp +
\* timeout <= now, equality included) it is thrown away and the caller stays in
\* the loop, with the rest of the queue to withdraw from.
HandedOutIffFresh ==
    [][(queue # <<>> /\ Len(queue') < Len(queue) /\ Head(queue).last_acquired # Unset) =>
          \E p \in Procs :
              /\ pc[p] = "loop"
              /\ wrapper'[p] = Head(queue)
              /\ queue' = Tail(queue)
              /\ \A q \in Procs \ {p} : pc'[q] = pc[q] /\ wrapper'[q] = wrapper[q]
              /\ IF Head(queue).last_acquired + timeout > now[p]
                 THEN pc'[p] = "block" /\ discarded' = discarded
                 ELSE /\ pc'[p] = "loop"
                      /\ discarded' = discarded \cup ({Head(queue).conn} \ {None})]_vars

\* a caller is in the loop after it threw away a connection whose stamp + timeout
\* was exactly its `now`
WitnessDiscardedAtEquality ==
    \E p \in Procs :
        /\ pc[p] = "loop"
        /\ wrapper[p].conn \in discarded
        /\ wrapper[p].last_acquired + timeout = now[p]

\* the place in q of the first wrapper with stamp + timeout > t, 0 if there is none
FirstFresh(q, t) ==
    LET F == {i \in 1 .. Len(q) : q[i].last_acquired + timeout > t}
    IN  IF F = {} THEN 0 ELSE CHOOSE i \in F : \A j \in F : i <= j

\* caller p's loop ends in this step, and no other caller has touched the queue
\* since p's acquire() started
LoopEndsAlone(p) == pc[p] = "loop" /\ pc'[p] # "loop" /\ alone[p]

\* create() is called by caller p in this step
CreateCalled(p) ==
    \/ creates'[p] > creates[p]
    \/ outcome'.caller = p /\ outcome'.raised \in CreateErrors

\* C13: the queue is first in, first out.  Every step that changes it takes its
\* first wrapper or appends one at its back; a with-block that ends appends its
\* wrapper at the back; and an acquire() that ran alone, when a wrapper of the
\* queue it started with is fresh, hands out the first fresh one, has thrown away
\* exactly the wrappers in front of it and leaves those behind it, in order.
StrictFIFO ==
    /\ [][queue' # queue =>
            \/ queue # <<>> /\ queue' = Tail(queue)
            \/ Len(queue') = Len(queue) + 1 /\ SubSeq(queue', 1, Len(queue)) = queue]_vars
    /\ [][\A p \in Procs :
            (pc[p] = "block" /\ pc'[p] # "block") =>
                /\ Len(queue') = Len(queue) + 1
                /\ SubSeq(queue', 1, Len(queue)) = queue
                /\ Back(queue').conn = wrapper[p].conn]_vars
    /\ [][\A p \in Procs :
            LET s == atStart[p]
                k == FirstFresh(s, now[p])
            IN  (LoopEndsAlone(p) /\ k > 0) =>
                    /\ pc'[p] = "block"
                    /\ wrapper'[p] = s[k]
                    /\ queue' = SubSeq(s, k + 1, Len(s))
                    /\ discarded' \cap Conns(s) = {s[i].conn : i \in 1 .. k - 1} \ {None}]_vars

\* an acquire() that ran alone started with two idle wrappers, threw away the
\* first, timed out, and is on loan with the second
WitnessSkippedStaleTookFresh ==
    \E p \in Procs :
        /\ OnLoan(p) /\ alone[p]
        /\ Len(atStart[p]) = 2
        /\ wrapper[p] = atStart[p][2]
        /\ atStart[p][1].conn \in discarded

\* C14: create() is called only by the turn of the loop whose get_nowait() found
\* the queue empty, and at most once in an acquire(); an acquire() that ran alone
\* calls create() if and only if no wrapper of the queue it started with is
\* fresh, and then every wrapper of that queue has been thrown away.
CreateOnlyWhenNoneFresh ==
    /\ [](\A p \in Procs : creates[p] \in {0, 1})
    /\ [][\A p \in Procs :
            CreateCalled(p) =>
                /\ pc[p] = "loop" /\ queue = <<>> /\ queue' = <<>>
                /\ creates[p] = 0
                /\ created' - created \in {0, 1}]_vars
    /\ [][\A p \in Procs :
            LoopEndsAlone(p) =>
                /\ CreateCalled(p) <=> FirstFresh(atStart[p], now[p]) = 0
                /\ CreateCalled(p) => Conns(atStart[p]) \subseteq discarded']_vars

\* an acquire() that ran alone started with two idle wrappers, both timed out,
\* threw both away and is on loan with the connection it created
WitnessCreatedAfterDraining ==
    \E p \in Procs :
        /\ OnLoan(p) /\ alone[p]
        /\ Len(atStart[p]) = 2
        /\ Conns(atStart[p]) \subseteq discarded
        /\ creates[p] = 1 /\ wrapper[p].last_acquired = Unset
        /\ specialized

\* C15: every wrapper of the queue carries a stamp; the wrapper of a connection
\* on its first loan carries none; and no acquire() ends with the KeyError that
\* the comparison of line 108 raises on a wrapper without a stamp.
IdleWrappersStamped ==
    /\ \A i \in 1 .. Len(queue) : queue[i].last_acquired \in 0 .. clock
    /\ \A p \in Procs :
          (OnLoan(p) /\ creates[p] = 1) => wrapper[p].last_acquired = Unset
    /\ outcome.raised # "KeyError"

\* one caller is on the first loan of the connection it created, its wrapper
\* without a stamp, while another is on loan with a wrapper that was stamped, put
\* into the queue and compared on its way out
WitnessFirstLoanBesideReloan ==
    \E p, q \in Procs :
        /\ OnLoan(p) /\ creates[p] = 1 /\ wrapper[p].last_acquired = Unset
        /\ OnLoan(q) /\ creates[q] = 0 /\ wrapper[q].last_acquired # Unset

\* C16: in sequential use, the wrapper of a block that ran for timeout or longer
\* is timed out already when it is put back (stamp + timeout <= the clock); the
\* next acquire() that withdraws it throws it away, however soon after the return
\* it starts, and a connection thrown away is never on loan again.
SequentialLongBlockStale ==
    /\ [][\A p \in Procs :
            (~overlap /\ pc[p] = "block" /\ pc'[p] # "block" /\ clock - now[p] >= timeout) =>
                Back(queue').last_acquired + timeout <= clock]_vars
    /\ [][\A p \in Procs :
            (SequentialWithdraw(p) /\
             retTime[Head(queue).conn] - Head(queue).last_acquired >= timeout) =>
                /\ pc'[p] = "loop"
                /\ Head(queue).conn \in discarded']_vars
    /\ [](\A p \in Procs : OnLoan(p) => wrapper[p].conn \notin discarded)

\* in sequential use, a caller is in the loop after it threw away a connection
\* whose block had run for timeout or longer and that was put back at the very
\* time this acquire() started
WitnessDiscardedRightAfterReturn ==
    \E p \in Procs :
        /\ ~overlap /\ pc[p] = "loop"
        /\ wrapper[p].conn \in discarded
        /\ retTime[wrapper[p].conn] = now[p]
        /\ retTime[wrapper[p].conn] - wrapper[p].last_acquired >= timeout

\* the end of a with-block whose connection came from the queue, with a stamp
Restamped(p) ==
    /\ pc[p] = "block" /\ pc'[p] # "block"
    /\ wrapper[p].conn \in Resources
    /\ wrapper[p].last_acquired # Unset

====
